---------------------------- MODULE Spec2Model ----------------------------
(***************************************************************************)
(* Model of the ledger synchronisation pipeline of transaction_feed.py:    *)
(* paginated retrieval, payment filter, memo decoding, conversions,        *)
(* insert-or-ignore persistence with one commit per page, and the          *)
(* resumption cursor derived from storage.                                 *)
(*                                                                         *)
(* Text values that the code converts (memo data, amount value strings)    *)
(* are sequences of code points, e.g. "41" is <<52, 49>>.  Values that the *)
(* code only compares or copies (addresses, hashes, type names) are TLA+   *)
(* strings.  A Python dict is a record; dict.get is Get.                   *)
(***************************************************************************)
EXTENDS Integers, Sequences, FiniteSets, TLC

\* --------------------------------------------------------------------------
\* Bounds of the model
\* --------------------------------------------------------------------------
\* longest remote history (number of account transactions on the ledger)
MaxHist == 5
\* number of runs of main() in one behaviour
MaxRuns == 3
\* page size used by the remote (the code asks for limit=1000)
PageLimit == 2
\* longest annotation string given to the decoder
MaxLen == 4
\* longest amount value string given to the conversion
MaxValueLen == 3
\* number of sampled days given to the time conversion
MaxDaySteps == 30
\* longest Memos list given to extract_memos
MaxMemos == 3
\* longest history of the remote under two concurrent runs
MaxConcHist == 4
\* longest text given to create_tweet in place of a number
MaxFieldLen == 100
\* longest leaderboard text given to create_tweet
MaxLeaderboardLen == 40
\* most rows the leaderboard query returns (LIMIT 5 in the program)
MaxTopRows == 2

\* --------------------------------------------------------------------------
\* Configuration
\* --------------------------------------------------------------------------
CURRENCY_CODE == "PFT"
ISSUER_ADDRESS == "rnQUEEg8yyjrwk9FhyXpKavHyCRJM9BDMW"
ACCOUNT_TO_CHECK == ISSUER_ADDRESS

\* Python None
None == [none |-> TRUE]

\* dict.get(k, default)
Get(d, k, default) == IF k \in DOMAIN d THEN d[k] ELSE default

\* variant: no marker counts as a continuation
Truthy_never(m) == FALSE

\* Python truthiness of a marker: None and the empty dict are falsy
Truthy(m) == m # None /\ DOMAIN m # {}

\* --------------------------------------------------------------------------
\* Memo decoding
\* --------------------------------------------------------------------------
\* U+FFFD, what errors='replace' puts for undecodable bytes
REPLACEMENT == 65533

\* a raised ValueError / binascii.Error
DecodeError == [ok |-> FALSE]

IsSpace(c) == c \in {9, 10, 11, 12, 13, 32}

\* _PyLong_DigitValue restricted to base 16; 37 stands for "not a digit"
HexDigitValue(c) ==
    IF c \in 48..57 THEN c - 48
    ELSE IF c \in 97..102 THEN c - 87
    ELSE IF c \in 65..70 THEN c - 55
    ELSE 37

\* bytes.fromhex: pairs of hex digits, ASCII whitespace skipped between pairs
RECURSIVE fromhex(_, _)
fromhex(s, out) ==
    IF s = <<>> THEN [ok |-> TRUE, bytes |-> out]
    ELSE IF IsSpace(s[1]) THEN fromhex(Tail(s), out)
    ELSE IF HexDigitValue(s[1]) >= 16 THEN DecodeError
    ELSE IF Len(s) < 2 \/ HexDigitValue(s[2]) >= 16 THEN DecodeError
    ELSE fromhex(SubSeq(s, 3, Len(s)),
                 Append(out, 16 * HexDigitValue(s[1]) + HexDigitValue(s[2])))

\* table_a2b_base64; 64 stands for "not in the alphabet"
B64Value(c) ==
    IF c \in 65..90 THEN c - 65
    ELSE IF c \in 97..122 THEN c - 71
    ELSE IF c \in 48..57 THEN c + 4
    ELSE IF c = 43 THEN 62
    ELSE IF c = 47 THEN 63
    ELSE 64

BASE64_PAD == 61

\* binascii.a2b_base64 in its default (non-strict) mode
RECURSIVE a2b_base64(_, _, _, _, _)
a2b_base64(s, quad_pos, leftchar, pads, out) ==
    IF s = <<>> THEN
        IF quad_pos # 0 THEN DecodeError ELSE [ok |-> TRUE, bytes |-> out]
    ELSE IF s[1] = BASE64_PAD THEN
        IF quad_pos >= 2 /\ quad_pos + pads + 1 >= 4
        THEN [ok |-> TRUE, bytes |-> out]
        ELSE a2b_base64(Tail(s), quad_pos, leftchar,
                        IF quad_pos >= 2 THEN pads + 1 ELSE pads, out)
    ELSE IF B64Value(s[1]) >= 64 THEN
        a2b_base64(Tail(s), quad_pos, leftchar, pads, out)
    ELSE LET this_ch == B64Value(s[1]) IN
        CASE quad_pos = 0 -> a2b_base64(Tail(s), 1, this_ch, 0, out)
          [] quad_pos = 1 -> a2b_base64(Tail(s), 2, this_ch % 16, 0,
                                 Append(out, leftchar * 4 + this_ch \div 16))
          [] quad_pos = 2 -> a2b_base64(Tail(s), 3, this_ch % 4, 0,
                                 Append(out, leftchar * 16 + this_ch \div 4))
          [] quad_pos = 3 -> a2b_base64(Tail(s), 0, 0, 0,
                                 Append(out, leftchar * 64 + this_ch))

\* base64.b64decode of a str: the str must be ASCII, then a2b_base64
b64decode(s) ==
    IF \E i \in 1..Len(s) : s[i] > 127 THEN DecodeError
    ELSE a2b_base64(s, 0, 0, 0, <<>>)

IsContinuation(b) == b \in 128..191

\* bytes.decode('utf-8', errors='replace'): every maximal ill-formed
\* subsequence becomes one U+FFFD
RECURSIVE utf8_decode(_)
utf8_decode(b) ==
    IF b = <<>> THEN <<>>
    ELSE LET c == b[1]
             n == Len(b)
             rest(k) == SubSeq(b, k + 1, n)
         IN
         IF c < 128 THEN <<c>> \o utf8_decode(rest(1))
         ELSE IF c \in 194..223 THEN
             IF n >= 2 /\ IsContinuation(b[2])
             THEN <<(c - 192) * 64 + (b[2] - 128)>> \o utf8_decode(rest(2))
             ELSE <<REPLACEMENT>> \o utf8_decode(rest(1))
         ELSE IF c \in 224..239 THEN
             LET lo == IF c = 224 THEN 160 ELSE 128
                 hi == IF c = 237 THEN 159 ELSE 191
             IN
             IF n >= 2 /\ b[2] \in lo..hi THEN
                 IF n >= 3 /\ IsContinuation(b[3])
                 THEN <<(c - 224) * 4096 + (b[2] - 128) * 64 + (b[3] - 128)>>
                          \o utf8_decode(rest(3))
                 ELSE <<REPLACEMENT>> \o utf8_decode(rest(2))
             ELSE <<REPLACEMENT>> \o utf8_decode(rest(1))
         ELSE IF c \in 240..244 THEN
             LET lo == IF c = 240 THEN 144 ELSE 128
                 hi == IF c = 244 THEN 143 ELSE 191
             IN
             IF n >= 2 /\ b[2] \in lo..hi THEN
                 IF n >= 3 /\ IsContinuation(b[3]) THEN
                     IF n >= 4 /\ IsContinuation(b[4])
                     THEN <<(c - 240) * 262144 + (b[2] - 128) * 4096
                              + (b[3] - 128) * 64 + (b[4] - 128)>>
                              \o utf8_decode(rest(4))
                     ELSE <<REPLACEMENT>> \o utf8_decode(rest(3))
                 ELSE <<REPLACEMENT>> \o utf8_decode(rest(2))
             ELSE <<REPLACEMENT>> \o utf8_decode(rest(1))
         ELSE <<REPLACEMENT>> \o utf8_decode(rest(1))

\* variant: base64 is tried before hex
decode_base64_or_hex(encoded_str) ==
    IF encoded_str = <<>> THEN <<>>
    ELSE LET b == b64decode(encoded_str) IN
         IF b.ok THEN utf8_decode(b.bytes)
         ELSE LET h == fromhex(encoded_str, <<>>) IN
              IF h.ok THEN utf8_decode(h.bytes)
              ELSE encoded_str

\* decode_hex_or_base64: hex first, then base64, then the raw string
decode_hex_or_base64(encoded_str) ==
    IF encoded_str = <<>> THEN <<>>
    ELSE LET h == fromhex(encoded_str, <<>>) IN
         IF h.ok THEN utf8_decode(h.bytes)
         ELSE LET b == b64decode(encoded_str) IN
              IF b.ok THEN utf8_decode(b.bytes)
              ELSE encoded_str

\* variant: memos that decode to nothing are left out of the join
extract_memos_skip_empty(transaction) ==
    LET memos == Get(transaction, "Memos", <<>>)
        memo_data(i) == decode_hex_or_base64(
                            Get(Get(memos[i], "Memo", <<>>), "MemoData", <<>>))
        join[i \in 0..Len(memos)] ==
            IF i = 0 THEN <<>>
            ELSE IF memo_data(i) = <<>> THEN join[i - 1]
            ELSE IF join[i - 1] = <<>> THEN memo_data(i)
            ELSE join[i - 1] \o <<10>> \o memo_data(i)
    IN IF memos = <<>> THEN <<>> ELSE join[Len(memos)]

extract_memos(transaction) ==
    LET memos == Get(transaction, "Memos", <<>>)
        memo_data(i) == decode_hex_or_base64(
                            Get(Get(memos[i], "Memo", <<>>), "MemoData", <<>>))
        join[i \in 0..Len(memos)] ==
            IF i = 0 THEN <<>>
            ELSE IF i = 1 THEN memo_data(1)
            ELSE join[i - 1] \o <<10>> \o memo_data(i)
    IN IF memos = <<>> THEN <<>> ELSE join[Len(memos)]

\* --------------------------------------------------------------------------
\* Date/Time handling and amount conversion
\* --------------------------------------------------------------------------
\* variant: the ledger time taken as Unix time
ripple_to_unix_time_no_offset(ripple_time) == ripple_time

ripple_to_unix_time(ripple_time) == ripple_time + 946684800

SECONDS_PER_DAY == 86400

\* variant: calendar of 365-day years without leap days
utcfromtimestamp_no_leap(unix_ts) ==
    LET days == unix_ts \div SECONDS_PER_DAY
        secs == unix_ts % SECONDS_PER_DAY
        doy  == days % 365
        firsts == <<0, 31, 59, 90, 120, 151, 181, 212, 243, 273, 304, 334>>
        m    == CHOOSE k \in 1..12 :
                    /\ firsts[k] <= doy
                    /\ (k = 12 \/ doy < firsts[k + 1])
    IN [year |-> 1970 + days \div 365, month |-> m, day |-> doy - firsts[m] + 1,
        hour |-> secs \div 3600, minute |-> (secs % 3600) \div 60,
        second |-> secs % 60]

\* datetime.utcfromtimestamp: the fields of the proleptic Gregorian calendar
\* date and time of day that is unix_ts seconds after 1970-01-01T00:00:00
utcfromtimestamp(unix_ts) ==
    LET days == unix_ts \div SECONDS_PER_DAY
        secs == unix_ts % SECONDS_PER_DAY
        z    == days + 719468
        era  == z \div 146097
        doe  == z - era * 146097
        yoe  == (doe - doe \div 1460 + doe \div 36524 - doe \div 146096) \div 365
        doy  == doe - (365 * yoe + yoe \div 4 - yoe \div 100)
        mp   == (5 * doy + 2) \div 153
        d    == doy - (153 * mp + 2) \div 5 + 1
        m    == IF mp < 10 THEN mp + 3 ELSE mp - 9
        y    == yoe + era * 400 + (IF m <= 2 THEN 1 ELSE 0)
    IN [year |-> y, month |-> m, day |-> d,
        hour |-> secs \div 3600, minute |-> (secs % 3600) \div 60,
        second |-> secs % 60]

get_ripple_datetime(ripple_time) ==
    utcfromtimestamp(ripple_to_unix_time(ripple_time))

IsDigit(c) == c \in 48..57

RECURSIVE DigitsValue(_)
DigitsValue(s) ==
    IF s = <<>> THEN 0
    ELSE 10 * DigitsValue(SubSeq(s, 1, Len(s) - 1)) + (s[Len(s)] - 48)

\* ASCII lower case of a code point
Lower(c) == IF c \in 65..90 THEN c + 32 ELSE c

\* str.strip() as float() applies it to its argument
RECURSIVE StripLeft(_)
StripLeft(s) == IF s # <<>> /\ IsSpace(s[1]) THEN StripLeft(Tail(s)) ELSE s

RECURSIVE StripRight(_)
StripRight(s) ==
    IF s # <<>> /\ IsSpace(s[Len(s)])
    THEN StripRight(SubSeq(s, 1, Len(s) - 1)) ELSE s

\* digit (["_"] digit)*, the digit part of a float literal
IsDigitPart(s) ==
    /\ s # <<>>
    /\ IsDigit(s[1])
    /\ IsDigit(s[Len(s)])
    /\ \A i \in 1..Len(s) : IsDigit(s[i]) \/ s[i] = 95
    /\ \A i \in 1..(Len(s) - 1) : ~(s[i] = 95 /\ s[i + 1] = 95)

OnlyDigits(s) == SelectSeq(s, IsDigit)

RECURSIVE StripZeros(_)
StripZeros(s) == IF s # <<>> /\ s[1] = 48 THEN StripZeros(Tail(s)) ELSE s

\* the first position of character c in s, Len(s) + 1 when there is none
FirstOf(s, c) ==
    IF \E i \in 1..Len(s) : s[i] = c
    THEN CHOOSE i \in 1..Len(s) : s[i] = c /\ \A j \in 1..(i - 1) : s[j] # c
    ELSE Len(s) + 1

FloatValueError == [kind |-> "ValueError"]

\* the parts of a float literal: [sign] mantissa [("e"|"E") exponent]
SignLen(stripped) ==
    IF stripped # <<>> /\ stripped[1] \in {43, 45} THEN 1 ELSE 0

IsNegative(stripped) == stripped # <<>> /\ stripped[1] = 45

\* the literal without its sign, in lower case
FloatBody(stripped) ==
    [i \in 1..(Len(stripped) - SignLen(stripped)) |->
        Lower(stripped[i + SignLen(stripped)])]

HasExponent(body) == FirstOf(body, 101) <= Len(body)

Mantissa(body) == SubSeq(body, 1, FirstOf(body, 101) - 1)

Exponent(body) == SubSeq(body, FirstOf(body, 101) + 1, Len(body))

ExponentDigits(expo) == IF SignLen(expo) = 1 THEN Tail(expo) ELSE expo

ExponentValue(body) ==
    IF ~HasExponent(body) THEN 0
    ELSE IF IsNegative(Exponent(body))
    THEN 0 - DigitsValue(OnlyDigits(ExponentDigits(Exponent(body))))
    ELSE DigitsValue(OnlyDigits(ExponentDigits(Exponent(body))))

HasDot(mant) == FirstOf(mant, 46) <= Len(mant)

Whole(mant) == SubSeq(mant, 1, FirstOf(mant, 46) - 1)

Frac(mant) == SubSeq(mant, FirstOf(mant, 46) + 1, Len(mant))

MantissaOk(mant) ==
    \/ IsDigitPart(Whole(mant)) /\ (Frac(mant) = <<>> \/ IsDigitPart(Frac(mant)))
    \/ Whole(mant) = <<>> /\ HasDot(mant) /\ IsDigitPart(Frac(mant))

ExponentOk(body) ==
    ~HasExponent(body) \/ IsDigitPart(ExponentDigits(Exponent(body)))

\* the value of a stripped literal with sign neg and lower-case body
parse_body(neg, body) ==
    IF body \in {<<105, 110, 102>>,
                 <<105, 110, 102, 105, 110, 105, 116, 121>>}
    THEN [kind |-> "inf", neg |-> neg]
    ELSE IF body = <<110, 97, 110>> THEN [kind |-> "nan"]
    ELSE IF ~(MantissaOk(Mantissa(body)) /\ ExponentOk(body))
    THEN FloatValueError
    ELSE [kind |-> "finite", neg |-> neg,
          digits |-> StripZeros(OnlyDigits(Whole(Mantissa(body)))
                                    \o OnlyDigits(Frac(Mantissa(body)))),
          exp10 |-> ExponentValue(body)
                        - Len(OnlyDigits(Frac(Mantissa(body))))]

parse_stripped(stripped) ==
    parse_body(IsNegative(stripped), FloatBody(stripped))

\* float(value_str) for an ASCII string: ValueError, nan, inf, or the finite
\* decimal  (-1)^neg * digits * 10^exp10  that the double is nearest to
parse_float(value_str) == parse_stripped(StripRight(StripLeft(value_str)))

\* the first 17 digits of the largest finite double, 1.7976931348623158e308
DBL_MAX_DIGITS == <<49, 55, 57, 55, 54, 57, 51, 49, 51, 52, 56, 54, 50, 51,
                    49, 53, 56>>

\* digit strings of at most 17 digits compared as decimal fractions 0.d1d2...
FractionGreater(a, b) ==
    LET pad(x, i) == IF i <= Len(x) THEN x[i] ELSE 48 IN
    \E i \in 1..17 :
        /\ pad(a, i) > pad(b, i)
        /\ \A j \in 1..(i - 1) : pad(a, j) = pad(b, j)

\* the decimal rounds to a double beyond the largest finite one
RoundsToInfinity(digits, exp10) ==
    LET n == Len(digits) + exp10 IN
    /\ digits # <<>>
    /\ \/ n > 309
       \/ n = 309 /\ FractionGreater(digits, DBL_MAX_DIGITS)

\* the digits of the integer part of a finite decimal with an integer part
IntegerDigits(f) ==
    IF f.exp10 >= 0
    THEN f.digits \o [i \in 1..f.exp10 |-> 48]
    ELSE SubSeq(f.digits, 1, Len(f.digits) + f.exp10)

Signed(neg, magnitude) == IF neg THEN 0 - magnitude ELSE magnitude

\* int(f) for a float f: OverflowError for an infinity, ValueError for a nan,
\* else the double truncated toward zero.  With at most 15 significant digits
\* and at most 9 integer digits this is the decimal truncated; a larger
\* integer is kept as the decimal it is the nearest double of.
int_of(f) ==
    IF f.kind \in {"ValueError", "nan"}
    THEN [ok |-> FALSE, error |-> "ValueError"]
    ELSE IF f.kind = "inf" THEN [ok |-> FALSE, error |-> "OverflowError"]
    ELSE IF RoundsToInfinity(f.digits, f.exp10)
    THEN [ok |-> FALSE, error |-> "OverflowError"]
    ELSE IF f.digits = <<>> \/ Len(f.digits) + f.exp10 <= 0
    THEN [ok |-> TRUE, value |-> 0]
    ELSE IF Len(f.digits) + f.exp10 <= 9 /\ Len(f.digits) <= 15
    THEN [ok |-> TRUE, value |-> Signed(f.neg, DigitsValue(IntegerDigits(f)))]
    ELSE [ok |-> TRUE,
          value |-> [nearest_double_of |-> f.digits,
                     exp10 |-> f.exp10, neg |-> f.neg]]

\* int(float(value_str)), float() raising ValueError for what it rejects
int_float(value_str) == int_of(parse_float(value_str))

\* "except ValueError: amount_int = 0"; another exception is not caught
except_ValueError(r) ==
    IF r.ok THEN r
    ELSE IF r.error = "ValueError" THEN [ok |-> TRUE, value |-> 0]
    ELSE r

\* "try: amount_int = int(float(value_str)) / except ValueError: amount_int = 0"
\* (lines 240-243); any other exception leaves main()
amount_to_int(value_str) == except_ValueError(int_float(value_str))

\* --------------------------------------------------------------------------
\* Helpers to fetch and filter transactions
\* --------------------------------------------------------------------------
\* variant: the currency code is not compared
is_token_payment_any_currency(tx, currency_code, issuer) ==
    IF Get(tx, "TransactionType", "None") # "Payment" THEN FALSE
    ELSE LET amount == Get(tx, "Amount", None) IN
         IF "dict" \in DOMAIN amount
         THEN Get(amount.dict, "issuer", "None") = issuer
         ELSE FALSE

is_token_payment(tx, currency_code, issuer) ==
    IF Get(tx, "TransactionType", "None") # "Payment" THEN FALSE
    ELSE LET amount == Get(tx, "Amount", None) IN
         IF "dict" \in DOMAIN amount
         THEN /\ Get(amount.dict, "issuer", "None") = issuer
              /\ Get(amount.dict, "currency", "None") = currency_code
         ELSE FALSE

\* the JSON body of the account_tx request
request_body(account, ledger_index_min, limit, marker) ==
    LET params == [account |-> account,
                   ledger_index_min |-> ledger_index_min,
                   ledger_index_max |-> -1,
                   limit |-> limit]
    IN [method |-> "account_tx",
        params |-> IF Truthy(marker)
                   THEN [k \in DOMAIN params \cup {"marker"} |->
                            IF k = "marker" THEN marker ELSE params[k]]
                   ELSE params]

\* --------------------------------------------------------------------------
\* Database utility
\* --------------------------------------------------------------------------
Max(S) == CHOOSE m \in S : \A n \in S : n <= m

\* variant: the empty table answers 0 instead of -1
get_last_stored_ledger_index_zero(rows) ==
    IF rows = {} THEN 0
    ELSE Max({r.ledger_index : r \in rows})

\* variant: one less than the maximum, so that the next run starts at the
\* last stored ledger again
get_last_stored_ledger_index_inclusive(rows) ==
    IF rows = {} THEN -1
    ELSE Max({r.ledger_index : r \in rows}) - 1

\* SELECT MAX(ledger_index) FROM pft_transactions, -1 for the empty table
get_last_stored_ledger_index(rows) ==
    IF rows = {} THEN -1
    ELSE Max({r.ledger_index : r \in rows})

Hashes(rows) == {r.transaction_hash : r \in rows}

\* variant: ON CONFLICT (transaction_hash) DO UPDATE
insert_transaction_upsert(rows, row) ==
    {r \in rows : r.transaction_hash # row.transaction_hash} \cup {row}

\* variant: a plain INSERT into a table without the unique key
insert_transaction_plain(rows, row) == rows \cup {row}

\* variant: the unique key is ledger_index, ON CONFLICT (ledger_index)
insert_transaction_per_ledger(rows, row) ==
    IF \E r \in rows : r.ledger_index = row.ledger_index
    THEN rows
    ELSE rows \cup {row}

\* INSERT ... ON CONFLICT (transaction_hash) DO NOTHING on the rows the
\* connection sees
insert_transaction(rows, row) ==
    IF \E r \in rows : r.transaction_hash = row.transaction_hash
    THEN rows
    ELSE rows \cup {row}

\* the value string main() takes from the Amount (lines 230-236)
ValueStr(tx) ==
    LET amount == Get(tx, "Amount", <<>>) IN
    IF "dict" \in DOMAIN amount
    THEN Get(amount.dict, "value", <<48>>)
    ELSE amount.str

\* the column values main() computes for a matching transaction
RowOf(tx) ==
    LET value_str == ValueStr(tx)
    IN [ledger_index          |-> Get(tx, "ledger_index", 0),
        transaction_hash      |-> Get(tx, "hash", ""),
        from_address          |-> Get(tx, "Account", ""),
        to_address            |-> Get(tx, "Destination", ""),
        memo                  |-> extract_memos(tx),
        amount                |-> amount_to_int(value_str).value,
        transaction_timestamp |-> IF "date" \in DOMAIN tx
                                  THEN get_ripple_datetime(tx.date)
                                  ELSE None]

\* --------------------------------------------------------------------------
\* The remote ledger
\* --------------------------------------------------------------------------
OTHER_ISSUER == "rOther"

IOU(issuer, currency, value) ==
    [dict |-> [issuer |-> issuer, currency |-> currency, value |-> value]]

\* The account's transactions as account_tx entries.  "ledger" is the ledger
\* the remote holds the entry in (what its range filter looks at); "tx" is the
\* body the client reads.
Entries == <<
    \* 1: token payment, memo "41" (hex of "A"), value "5"
    [ledger |-> 1,
     tx |-> [ledger_index |-> 1, TransactionType |-> "Payment", hash |-> "H1",
             Account |-> "rAlice", Destination |-> ISSUER_ADDRESS, date |-> 0,
             Amount |-> IOU(ISSUER_ADDRESS, CURRENCY_CODE, <<53>>),
             Memos |-> << [Memo |-> [MemoData |-> <<52, 49>>]] >>]],
    \* 2: token payment, no date, no memos, value "123.99"
    [ledger |-> 2,
     tx |-> [ledger_index |-> 2, TransactionType |-> "Payment", hash |-> "H2",
             Account |-> ISSUER_ADDRESS, Destination |-> "rBob",
             Amount |-> IOU(ISSUER_ADDRESS, CURRENCY_CODE,
                            <<49, 50, 51, 46, 57, 57>>)]],
    \* 3: token payment in the same ledger as 2, value "abc", two memos
    \*    ("QQ==" is base64 of "A", "hi!" is neither hex nor base64)
    [ledger |-> 2,
     tx |-> [ledger_index |-> 2, TransactionType |-> "Payment", hash |-> "H3",
             Account |-> "rAlice", Destination |-> "rBob", date |-> 10,
             Amount |-> IOU(ISSUER_ADDRESS, CURRENCY_CODE, <<97, 98, 99>>),
             Memos |-> << [Memo |-> [MemoData |-> <<81, 81, 61, 61>>]],
                          [Memo |-> [MemoData |-> <<104, 105, 33>>]] >>]],
    \* 4: payment of another currency of the same issuer
    [ledger |-> 2,
     tx |-> [ledger_index |-> 2, TransactionType |-> "Payment", hash |-> "H4",
             Account |-> "rAlice", Destination |-> "rBob", date |-> 11,
             Amount |-> IOU(ISSUER_ADDRESS, "USD", <<49>>)]],
    \* 5: payment of the native currency (Amount is a string of drops)
    [ledger |-> 3,
     tx |-> [ledger_index |-> 3, TransactionType |-> "Payment", hash |-> "H5",
             Account |-> "rAlice", Destination |-> ISSUER_ADDRESS, date |-> 20,
             Amount |-> [str |-> <<49, 48, 48>>]]],
    \* 6: not a payment, with an Amount in the tracked token
    [ledger |-> 3,
     tx |-> [ledger_index |-> 3, TransactionType |-> "CheckCash",
             hash |-> "H6", Account |-> "rBob", date |-> 21,
             Amount |-> IOU(ISSUER_ADDRESS, CURRENCY_CODE, <<50>>)]],
    \* 7: payment of the tracked currency code of another issuer
    [ledger |-> 3,
     tx |-> [ledger_index |-> 3, TransactionType |-> "Payment", hash |-> "H7",
             Account |-> "rBob", Destination |-> ISSUER_ADDRESS, date |-> 22,
             Amount |-> IOU(OTHER_ISSUER, CURRENCY_CODE, <<51>>)]],
    \* 8: token payment whose body has neither hash nor ledger_index
    [ledger |-> 3,
     tx |-> [TransactionType |-> "Payment",
             Account |-> "rAlice", Destination |-> "rBob", date |-> 23,
             Amount |-> IOU(ISSUER_ADDRESS, CURRENCY_CODE, <<55>>)]],
    \* 9: another token payment without hash
    [ledger |-> 1,
     tx |-> [ledger_index |-> 1, TransactionType |-> "Payment",
             Account |-> "rBob", Destination |-> "rAlice", date |-> 1,
             Amount |-> IOU(ISSUER_ADDRESS, CURRENCY_CODE, <<57>>)]]
>>

EntryIds == 1..Len(Entries)

TxOf(id) == Get(Entries[id], "tx", <<>>)

Matches(id) == is_token_payment(TxOf(id), CURRENCY_CODE, ISSUER_ADDRESS)

\* the remote lists an account's transactions in ledger order, oldest first
\* or newest first
LedgerOrdered(h) ==
    \/ \A i, j \in 1..Len(h) :
          i < j => Entries[h[i]].ledger <= Entries[h[j]].ledger
    \/ \A i, j \in 1..Len(h) :
          i < j => Entries[h[i]].ledger >= Entries[h[j]].ledger

Histories ==
    {h \in UNION {[1..n -> EntryIds] : n \in 0..MaxHist} :
        /\ \A i, j \in 1..Len(h) : i # j => h[i] # h[j]
        /\ LedgerOrdered(h)}

Min2(a, b) == IF a <= b THEN a ELSE b

\* the remote's answer to an account_tx request: the entries in the asked
\* ledger range, one page of them from the marker on, and a marker when
\* entries remain
account_tx(history, request) ==
    LET params  == request.params
        inrange == SelectSeq(history,
                       LAMBDA id : Entries[id].ledger >= params.ledger_index_min)
        off     == IF "marker" \in DOMAIN params THEN params.marker.off ELSE 0
        last    == Min2(off + params.limit, Len(inrange))
        page    == SubSeq(inrange, off + 1, last)
    IN IF last < Len(inrange)
       THEN [result |-> [transactions |-> page, marker |-> [off |-> last]]]
       ELSE [result |-> [transactions |-> page]]

\* a reply without the "result" envelope
ErrorResponse == [error |-> "noNetwork"]

\* --------------------------------------------------------------------------
\* State
\* --------------------------------------------------------------------------
VARIABLES
    remote,                  \* the account's history on the ledger (entry ids)
    db,                      \* committed rows of pft_transactions
    conn_rows,               \* the table as the open transaction of conn sees it
    pc,                      \* where main() is
    run,                     \* number of runs started
    ledger_index_min,
    marker,
    highest_ledger_this_run,
    transactions_batch,
    idx,                     \* position of the for loop in transactions_batch
    db_at_start,             \* history: db when the current run started
    prev_outcome,            \* history: how the run before this one ended
    fetchLog,                \* history: requests and responses of this run
    encoded_str,             \* argument of a decoder call
    decoded,                 \* its result
    dpc,                     \* where the decoder call is
    value_str,               \* a value string given to the amount conversion
    amount_int,              \* its result
    apc,                     \* where the conversion is
    ripple_time,             \* argument of a get_ripple_datetime call
    tx_datetime,             \* its result
    tpc,                     \* where that call is
    transaction,             \* argument of an extract_memos call
    memo_str,                \* its result
    mpc,                     \* where that call is
    proc,                    \* the state of each of two concurrent runs
    tweet_args,              \* arguments of a create_tweet call
    tweet,                   \* its result
    wpc,                     \* where that call is
    hpc,                     \* where lambda_handler is
    connection_string,
    conn,                    \* the database connection: none, open, closed
    locals,                  \* what lambda_handler keeps of the query results
    handler_result,          \* what lambda_handler returned or raised
    calls,                   \* history: the collaborators called, and how each went
    posted                   \* the tweets that were published

mainVars == <<remote, db, conn_rows, pc, run, ledger_index_min, marker,
              highest_ledger_this_run, transactions_batch, idx, db_at_start,
              prev_outcome, fetchLog, proc>>
decoderVars == <<encoded_str, decoded, dpc>>
amountVars == <<value_str, amount_int, apc>>
timeVars == <<ripple_time, tx_datetime, tpc>>
memoVars == <<transaction, memo_str, mpc>>
tweetVars == <<tweet_args, tweet, wpc>>
handlerVars == <<hpc, connection_string, conn, locals, handler_result, calls,
                 posted>>
botVars == <<tweet_args, tweet, wpc, hpc, connection_string, conn, locals,
             handler_result, calls, posted>>
callVars == <<encoded_str, decoded, dpc, value_str, amount_int, apc,
              ripple_time, tx_datetime, tpc, transaction, memo_str, mpc>>
vars == <<remote, db, conn_rows, pc, run, ledger_index_min, marker,
          highest_ledger_this_run, transactions_batch, idx, db_at_start,
          prev_outcome, fetchLog, encoded_str, decoded, dpc, value_str,
          amount_int, apc, ripple_time, tx_datetime, tpc, transaction,
          memo_str, mpc, proc, tweet_args, tweet, wpc, hpc,
          connection_string, conn, locals, handler_result, calls, posted>>

\* --------------------------------------------------------------------------
\* main()
\* --------------------------------------------------------------------------
\* the two concurrent runs
Procs == {1, 2}

\* a run of main() that has not started
IdleRun ==
    [pc |-> "idle", ledger_index_min |-> 0, marker |-> None,
     highest_ledger_this_run |-> 0, transactions_batch |-> <<>>, idx |-> 1,
     rows |-> {}, committed |-> {}]

InitMain(histories) ==
    /\ proc = [p \in Procs |-> IdleRun]
    /\ remote \in histories
    /\ db = {}
    /\ conn_rows = {}
    /\ pc = "idle"
    /\ run = 0
    /\ ledger_index_min = 0
    /\ marker = None
    /\ highest_ledger_this_run = 0
    /\ transactions_batch = <<>>
    /\ idx = 1
    /\ db_at_start = {}
    /\ prev_outcome = "none"
    /\ fetchLog = <<>>

InitDecoderIdle ==
    /\ encoded_str = <<>>
    /\ decoded = <<>>
    /\ dpc = "idle"

InitAmountIdle ==
    /\ value_str = <<>>
    /\ amount_int = 0
    /\ apc = "idle"

InitTimeIdle ==
    /\ ripple_time = 0
    /\ tx_datetime = None
    /\ tpc = "idle"

InitMemoIdle ==
    /\ transaction = <<>>
    /\ memo_str = <<>>
    /\ mpc = "idle"

InitTweetIdle ==
    /\ tweet_args = <<>>
    /\ tweet = <<>>
    /\ wpc = "idle"

InitHandlerIdle ==
    /\ hpc = "idle"
    /\ connection_string = None
    /\ conn = "none"
    /\ locals = None
    /\ handler_result = None
    /\ calls = <<>>
    /\ posted = <<>>

InitBotIdle ==
    /\ InitTweetIdle
    /\ InitHandlerIdle

Init ==
    /\ InitMain(Histories)
    /\ InitBotIdle
    /\ InitDecoderIdle
    /\ InitAmountIdle
    /\ InitTimeIdle
    /\ InitMemoIdle

\* how the run that has just ended went
Outcome ==
    IF pc = "done" THEN "done"
    ELSE IF pc # "aborted" THEN "none"
    ELSE IF "result" \in DOMAIN fetchLog[Len(fetchLog)].response
         THEN "insert_aborted"
         ELSE "fetch_aborted"

\* connect, read the resumption bound, set up the loop (lines 190-206)
StartRun ==
    /\ pc \in {"idle", "done", "aborted"}
    /\ run < MaxRuns
    /\ run' = run + 1
    /\ conn_rows' = db
    /\ ledger_index_min' = get_last_stored_ledger_index(db) + 1
    /\ marker' = None
    /\ highest_ledger_this_run' = ledger_index_min'
    /\ transactions_batch' = <<>>
    /\ idx' = 1
    /\ pc' = "fetch"
    /\ db_at_start' = db
    /\ prev_outcome' = Outcome
    /\ fetchLog' = <<>>
    /\ UNCHANGED <<remote, db>>

\* variant: the lower bound is read from the table again for every request
TheRequest_recomputed ==
    request_body(ACCOUNT_TO_CHECK, get_last_stored_ledger_index(db) + 1,
                 PageLimit, marker)

TheRequest == request_body(ACCOUNT_TO_CHECK, ledger_index_min, PageLimit, marker)

\* variant: the marker of the first response is kept for all later requests
FetchPage_first_marker ==
    /\ pc = "fetch"
    /\ Len(fetchLog) < MaxHist + 2
    /\ LET response == account_tx(remote, TheRequest)
           result   == response.result
       IN /\ "result" \in DOMAIN response
          /\ transactions_batch' = Get(result, "transactions", <<>>)
          /\ marker' = IF fetchLog = <<>> \/ "marker" \notin DOMAIN result
                       THEN Get(result, "marker", None)
                       ELSE marker
          /\ fetchLog' = Append(fetchLog, [request |-> TheRequest,
                                           response |-> response, db |-> db])
    /\ idx' = 1
    /\ pc' = "process"
    /\ UNCHANGED <<remote, db, conn_rows, run, ledger_index_min,
                   highest_ledger_this_run, db_at_start, prev_outcome>>

\* fetch_account_transactions returns (txs, next_marker)
FetchPage ==
    /\ pc = "fetch"
    /\ LET response == account_tx(remote, TheRequest)
           result   == response.result
       IN /\ "result" \in DOMAIN response
          /\ transactions_batch' = Get(result, "transactions", <<>>)
          /\ marker' = Get(result, "marker", None)
          /\ fetchLog' = Append(fetchLog, [request |-> TheRequest,
                                           response |-> response, db |-> db])
    /\ idx' = 1
    /\ pc' = "process"
    /\ UNCHANGED <<remote, db, conn_rows, run, ledger_index_min,
                   highest_ledger_this_run, db_at_start, prev_outcome>>

\* variant: a reply without "result" is logged and the request is sent again
FetchAbort_retry ==
    /\ pc = "fetch"
    /\ Len(fetchLog) < MaxHist + 2
    /\ fetchLog' = Append(fetchLog, [request |-> TheRequest,
                                     response |-> ErrorResponse, db |-> db])
    /\ UNCHANGED <<remote, db, conn_rows, pc, run, ledger_index_min, marker,
                   highest_ledger_this_run, transactions_batch, idx,
                   db_at_start, prev_outcome>>

\* variant: the whole run is one transaction, an abort undoes all its pages
FetchAbort_undo_run ==
    /\ pc = "fetch"
    /\ fetchLog' = Append(fetchLog, [request |-> TheRequest,
                                     response |-> ErrorResponse, db |-> db])
    /\ pc' = "aborted"
    /\ db' = db_at_start
    /\ conn_rows' = db_at_start
    /\ UNCHANGED <<remote, run, ledger_index_min, marker,
                   highest_ledger_this_run, transactions_batch, idx,
                   db_at_start, prev_outcome>>

\* fetch_account_transactions raises: the reply has no "result"; main() does
\* not catch it, the process ends and the open transaction is rolled back
FetchAbort ==
    /\ pc = "fetch"
    /\ LET response == ErrorResponse IN
          /\ "result" \notin DOMAIN response
          /\ fetchLog' = Append(fetchLog, [request |-> TheRequest,
                                           response |-> response, db |-> db])
    /\ pc' = "aborted"
    /\ conn_rows' = db
    /\ UNCHANGED <<remote, db, run, ledger_index_min, marker,
                   highest_ledger_this_run, transactions_batch, idx,
                   db_at_start, prev_outcome>>

\* variant: conn.autocommit = True, every insert is committed at once
ProcessEntry_autocommit ==
    /\ pc = "process"
    /\ idx <= Len(transactions_batch)
    /\ LET entry == Entries[transactions_batch[idx]]
           tx    == Get(entry, "tx", <<>>)
           ledger_index_tx == Get(tx, "ledger_index", 0)
       IN /\ highest_ledger_this_run' =
                 IF ledger_index_tx > highest_ledger_this_run
                 THEN ledger_index_tx ELSE highest_ledger_this_run
          /\ IF is_token_payment(tx, CURRENCY_CODE, ISSUER_ADDRESS)
             THEN conn_rows' = insert_transaction(conn_rows, RowOf(tx))
             ELSE UNCHANGED conn_rows
    /\ db' = conn_rows'
    /\ idx' = idx + 1
    /\ UNCHANGED <<remote, pc, run, ledger_index_min, marker,
                   transactions_batch, db_at_start, prev_outcome, fetchLog>>

\* one iteration of "for entry in transactions_batch" (lines 215-263); an
\* exception of the amount conversion that is not a ValueError leaves main()
\* and the open transaction is rolled back
ProcessEntry ==
    /\ pc = "process"
    /\ idx <= Len(transactions_batch)
    /\ LET entry == Entries[transactions_batch[idx]]
           tx    == Get(entry, "tx", <<>>)
           ledger_index_tx == Get(tx, "ledger_index", 0)
           matches == is_token_payment(tx, CURRENCY_CODE, ISSUER_ADDRESS)
       IN /\ highest_ledger_this_run' =
                 IF ledger_index_tx > highest_ledger_this_run
                 THEN ledger_index_tx ELSE highest_ledger_this_run
          /\ IF matches /\ ~amount_to_int(ValueStr(tx)).ok
             THEN /\ pc' = "aborted"
                  /\ conn_rows' = db
                  /\ idx' = idx
             ELSE /\ pc' = pc
                  /\ idx' = idx + 1
                  /\ IF matches
                     THEN conn_rows' = insert_transaction(conn_rows, RowOf(tx))
                     ELSE UNCHANGED conn_rows
    /\ UNCHANGED <<remote, db, run, ledger_index_min, marker,
                   transactions_batch, db_at_start, prev_outcome, fetchLog>>

\* the INSERT of a matching entry fails in the store (connection lost, value
\* out of range): the exception ends the process, the page is rolled back
InsertRaises ==
    /\ pc = "process"
    /\ idx <= Len(transactions_batch)
    /\ Matches(transactions_batch[idx])
    /\ pc' = "aborted"
    /\ conn_rows' = db
    /\ UNCHANGED <<remote, db, run, ledger_index_min, marker,
                   highest_ledger_this_run, transactions_batch, idx,
                   db_at_start, prev_outcome, fetchLog>>

\* variant: conn.commit() inside the for loop, after each entry
Commit_in_loop ==
    /\ pc = "process"
    /\ idx > 1 \/ idx > Len(transactions_batch)
    /\ db' = conn_rows
    /\ UNCHANGED conn_rows
    /\ pc' = IF idx <= Len(transactions_batch) THEN "process"
             ELSE IF ~Truthy(marker) THEN "done" ELSE "fetch"
    /\ UNCHANGED <<remote, run, ledger_index_min, marker,
                   highest_ledger_this_run, transactions_batch, idx,
                   db_at_start, prev_outcome, fetchLog>>

\* conn.commit() after the batch, then the pagination check (lines 266-277)
Commit ==
    /\ pc = "process"
    /\ idx > Len(transactions_batch)
    /\ db' = conn_rows
    /\ UNCHANGED conn_rows
    /\ pc' = IF ~Truthy(marker) THEN "done" ELSE "fetch"
    /\ UNCHANGED <<remote, run, ledger_index_min, marker,
                   highest_ledger_this_run, transactions_batch, idx,
                   db_at_start, prev_outcome, fetchLog>>

Next ==
    \/ StartRun /\ UNCHANGED <<callVars, proc, botVars>>
    \/ FetchPage /\ UNCHANGED <<callVars, proc, botVars>>
    \/ FetchAbort /\ UNCHANGED <<callVars, proc, botVars>>
    \/ ProcessEntry /\ UNCHANGED <<callVars, proc, botVars>>
    \/ InsertRaises /\ UNCHANGED <<callVars, proc, botVars>>
    \/ Commit /\ UNCHANGED <<callVars, proc, botVars>>

Spec == Init /\ [][Next]_vars

\* --------------------------------------------------------------------------
\* Calls of the decoder on arbitrary annotation strings
\* --------------------------------------------------------------------------
\* '4' '1' 'Q' '=' '!' ' ' and U+00E9
DecoderAlphabet == {52, 49, 81, 61, 33, 32, 233}

AnnotationStrings == UNION {[1..n -> DecoderAlphabet] : n \in 0..MaxLen}

InitDecoder ==
    /\ InitMain({<<>>})
    /\ InitBotIdle
    /\ InitAmountIdle
    /\ InitTimeIdle
    /\ InitMemoIdle
    /\ encoded_str \in AnnotationStrings
    /\ decoded = <<>>
    /\ dpc = "call"

Decode ==
    /\ dpc = "call"
    /\ decoded' = decode_hex_or_base64(encoded_str)
    /\ dpc' = "returned"
    /\ UNCHANGED encoded_str
    /\ UNCHANGED <<mainVars, botVars, amountVars, timeVars, memoVars>>

NextDecoder == Decode

SpecDecoder == InitDecoder /\ [][NextDecoder]_vars

\* --------------------------------------------------------------------------
\* Calls of the amount conversion on arbitrary value strings
\* --------------------------------------------------------------------------
\* '1' '9' '.' 'e' '-' 'a' 'n' 'i' 'f'
ValueAlphabet == {49, 57, 46, 101, 45, 97, 110, 105, 102}

ValueStrings == UNION {[1..n -> ValueAlphabet] : n \in 0..MaxValueLen}

InitAmount ==
    /\ InitMain({<<>>})
    /\ InitBotIdle
    /\ InitDecoderIdle
    /\ InitTimeIdle
    /\ InitMemoIdle
    /\ value_str \in ValueStrings
    /\ amount_int = 0
    /\ apc = "call"

\* lines 240-243 for a value string that converts or raises ValueError
ConvertAmount ==
    /\ apc = "call"
    /\ amount_to_int(value_str).ok
    /\ amount_int' = amount_to_int(value_str).value
    /\ apc' = "returned"
    /\ UNCHANGED value_str
    /\ UNCHANGED <<mainVars, botVars, decoderVars, timeVars, memoVars>>

\* lines 240-243 for a value string whose conversion raises another exception:
\* it is not caught and main() ends
ConvertAmountRaises ==
    /\ apc = "call"
    /\ ~amount_to_int(value_str).ok
    /\ apc' = "raised"
    /\ UNCHANGED <<value_str, amount_int>>
    /\ UNCHANGED <<mainVars, botVars, decoderVars, timeVars, memoVars>>

NextAmount == ConvertAmount \/ ConvertAmountRaises

SpecAmount == InitAmount /\ [][NextAmount]_vars

\* --------------------------------------------------------------------------
\* Calls of get_ripple_datetime on ledger close times
\* --------------------------------------------------------------------------
\* days since 2000-01-01: the first days, the days around 946684800 seconds,
\* and one day in every 397
DaySamples == {0, 1, 59, 60, 365, 366, 10956, 10957, 10958}
                  \cup {k * 397 : k \in 0..MaxDaySteps}

RippleTimes == {d * SECONDS_PER_DAY + sec : d \in DaySamples, sec \in {0, 1, 86399}}

InitTime ==
    /\ InitMain({<<>>})
    /\ InitBotIdle
    /\ InitDecoderIdle
    /\ InitAmountIdle
    /\ InitMemoIdle
    /\ ripple_time \in RippleTimes
    /\ tx_datetime = None
    /\ tpc = "call"

\* line 247
ConvertTime ==
    /\ tpc = "call"
    /\ tx_datetime' = get_ripple_datetime(ripple_time)
    /\ tpc' = "returned"
    /\ UNCHANGED ripple_time
    /\ UNCHANGED <<mainVars, botVars, decoderVars, amountVars, memoVars>>

NextTime == ConvertTime

SpecTime == InitTime /\ [][NextTime]_vars

\* --------------------------------------------------------------------------
\* Calls of extract_memos on transactions with and without Memos
\* --------------------------------------------------------------------------
\* "41", "QQ==", "hi!", "0A", ""
MemoDatas == {<<52, 49>>, <<81, 81, 61, 61>>, <<104, 105, 33>>, <<48, 65>>, <<>>}

\* entries with MemoData, with a Memo without MemoData, and without Memo
MemoEntries ==
    {[Memo |-> [MemoData |-> d]] : d \in MemoDatas}
        \cup {[Memo |-> [MemoType |-> <<52, 49>>]], [Other |-> <<>>]}

MemoTransactions ==
    {[TransactionType |-> "Payment"]}
        \cup {[TransactionType |-> "Payment", Memos |-> m] :
                 m \in UNION {[1..n -> MemoEntries] : n \in 0..MaxMemos}}

InitMemo ==
    /\ InitMain({<<>>})
    /\ InitBotIdle
    /\ InitDecoderIdle
    /\ InitAmountIdle
    /\ InitTimeIdle
    /\ transaction \in MemoTransactions
    /\ memo_str = <<>>
    /\ mpc = "call"

\* line 251
ExtractMemos ==
    /\ mpc = "call"
    /\ memo_str' = extract_memos(transaction)
    /\ mpc' = "returned"
    /\ UNCHANGED transaction
    /\ UNCHANGED <<mainVars, botVars, decoderVars, amountVars, timeVars>>

NextMemo == ExtractMemos

SpecMemo == InitMemo /\ [][NextMemo]_vars

\* --------------------------------------------------------------------------
\* Two runs of main() at once, each on its own connection to one table.
\* proc[p].rows are the rows run p has inserted and not committed; the table
\* has a unique index on transaction_hash (ON CONFLICT (transaction_hash)
\* needs one) and connections run at READ COMMITTED.
\* --------------------------------------------------------------------------
\* the entries the histories of this part are made of
ConcEntryIds == {1, 2, 3, 4, 8, 9}

ConcHistories ==
    {h \in Histories : Len(h) <= MaxConcHist /\ \A i \in 1..Len(h) : h[i] \in ConcEntryIds}

MaxLedger == Max({Entries[id].ledger : id \in EntryIds})

\* the table a run from the table rows leaves when it completes against
\* history: the matching entries from the resumption bound on, inserted in
\* the order of the history
SingleRunResult(rows, history) ==
    LET bound   == get_last_stored_ledger_index(rows) + 1
        inrange == SelectSeq(history, LAMBDA id : Entries[id].ledger >= bound)
        stored[i \in 0..Len(inrange)] ==
            IF i = 0 THEN rows
            ELSE IF Matches(inrange[i])
            THEN insert_transaction(stored[i - 1], RowOf(TxOf(inrange[i])))
            ELSE stored[i - 1]
    IN stored[Len(inrange)]

\* the table that runs completed while the remote was at ledger l have left
StorageAtLedger(history, l) ==
    SingleRunResult({}, SelectSeq(history, LAMBDA id : Entries[id].ledger <= l))

InitConcurrent ==
    /\ remote \in ConcHistories
    /\ \E l \in 0..MaxLedger : db = StorageAtLedger(remote, l)
    /\ db_at_start = db
    /\ proc = [p \in Procs |-> IdleRun]
    /\ InitBotIdle
    /\ conn_rows = {}
    /\ pc = "idle"
    /\ run = 0
    /\ ledger_index_min = 0
    /\ marker = None
    /\ highest_ledger_this_run = 0
    /\ transactions_batch = <<>>
    /\ idx = 1
    /\ prev_outcome = "none"
    /\ fetchLog = <<>>
    /\ InitDecoderIdle
    /\ InitAmountIdle
    /\ InitTimeIdle
    /\ InitMemoIdle

concUnchanged == <<remote, db_at_start, conn_rows, pc, run, ledger_index_min,
                   marker, highest_ledger_this_run, transactions_batch, idx,
                   prev_outcome, fetchLog, encoded_str, decoded, dpc,
                   value_str, amount_int, apc, ripple_time, tx_datetime, tpc,
                   transaction, memo_str, mpc, tweet_args, tweet, wpc, hpc,
                   connection_string, conn, locals, handler_result, calls,
                   posted>>

\* lines 190-206 of run p
ConcStartRun(p) ==
    /\ proc[p].pc = "idle"
    /\ LET bound == get_last_stored_ledger_index(db) + 1 IN
       proc' = [proc EXCEPT ![p] =
                   [@ EXCEPT !.pc = "fetch",
                             !.ledger_index_min = bound,
                             !.marker = None,
                             !.highest_ledger_this_run = bound]]
    /\ UNCHANGED db
    /\ UNCHANGED concUnchanged

\* lines 209-213 of run p
ConcFetchPage(p) ==
    /\ proc[p].pc = "fetch"
    /\ LET response == account_tx(remote,
                           request_body(ACCOUNT_TO_CHECK,
                                        proc[p].ledger_index_min, PageLimit,
                                        proc[p].marker))
           result   == response.result
       IN proc' = [proc EXCEPT ![p] =
                      [@ EXCEPT !.pc = "process",
                                !.transactions_batch =
                                    Get(result, "transactions", <<>>),
                                !.marker = Get(result, "marker", None),
                                !.idx = 1]]
    /\ UNCHANGED db
    /\ UNCHANGED concUnchanged

\* the INSERT of run p has to wait: another connection has inserted a row
\* with this hash and has not committed yet
Waits(p, row) ==
    /\ row.transaction_hash \notin Hashes(db \cup proc[p].rows)
    /\ \E q \in Procs \ {p} : row.transaction_hash \in Hashes(proc[q].rows)

\* variant: no unique index; a connection checks the rows it sees and nothing
\* else
ConcProcessEntry_no_index(p) ==
    /\ proc[p].pc = "process"
    /\ proc[p].idx <= Len(proc[p].transactions_batch)
    /\ LET tx == TxOf(proc[p].transactions_batch[proc[p].idx])
           ledger_index_tx == Get(tx, "ledger_index", 0)
           matches == is_token_payment(tx, CURRENCY_CODE, ISSUER_ADDRESS)
       IN proc' = [proc EXCEPT ![p] =
                     [@ EXCEPT !.idx = @ + 1,
                               !.highest_ledger_this_run =
                                   IF ledger_index_tx > @
                                   THEN ledger_index_tx ELSE @,
                               !.rows =
                                   IF matches
                                   THEN insert_transaction(db \cup @, RowOf(tx)) \ db
                                   ELSE @]]
    /\ UNCHANGED db
    /\ UNCHANGED concUnchanged

\* lines 215-263 of run p, for an entry whose INSERT does not have to wait
ConcProcessEntry(p) ==
    /\ proc[p].pc = "process"
    /\ proc[p].idx <= Len(proc[p].transactions_batch)
    /\ LET tx == TxOf(proc[p].transactions_batch[proc[p].idx])
           ledger_index_tx == Get(tx, "ledger_index", 0)
           matches == is_token_payment(tx, CURRENCY_CODE, ISSUER_ADDRESS)
       IN /\ matches => ~Waits(p, RowOf(tx))
          /\ proc' = [proc EXCEPT ![p] =
                        [@ EXCEPT !.idx = @ + 1,
                                  !.highest_ledger_this_run =
                                      IF ledger_index_tx > @
                                      THEN ledger_index_tx ELSE @,
                                  !.rows =
                                      IF matches
                                      THEN insert_transaction(db \cup @, RowOf(tx)) \ db
                                      ELSE @]]
    /\ UNCHANGED db
    /\ UNCHANGED concUnchanged

\* lines 266-270 of run p
ConcCommit(p) ==
    /\ proc[p].pc = "process"
    /\ proc[p].idx > Len(proc[p].transactions_batch)
    /\ db' = db \cup proc[p].rows
    /\ proc' = [proc EXCEPT ![p] =
                   [@ EXCEPT !.pc = IF ~Truthy(proc[p].marker)
                                    THEN "done" ELSE "fetch",
                             !.committed = @ \cup proc[p].rows,
                             !.rows = {}]]
    /\ UNCHANGED concUnchanged

NextConcurrent ==
    \E p \in Procs :
        \/ ConcStartRun(p)
        \/ ConcFetchPage(p)
        \/ ConcProcessEntry(p)
        \/ ConcCommit(p)

SpecConcurrent == InitConcurrent /\ [][NextConcurrent]_vars

\* --------------------------------------------------------------------------
\* twitterbot.py: create_tweet.  Text is a sequence of code points, as len()
\* and slicing count it; an argument is an int or a str, which the f-string
\* formats with str().
\* --------------------------------------------------------------------------
\* str(n) for an int
str_digits[n \in Nat] ==
    IF n < 10 THEN <<48 + n>> ELSE Append(str_digits[n \div 10], 48 + (n % 10))

str_int(n) == IF n < 0 THEN <<45>> \o str_digits[-n] ELSE str_digits[n]

\* f"{value}": what format() gives for an int and for a str
format_value(value) ==
    IF "int" \in DOMAIN value THEN str_int(value.int) ELSE value.str

\* the text of lines 59-64, and again of lines 75-81:
\* "\U0001F680 Daily PFT Update!\n\n", "✨ {initiations} new initiations
\* yesterday.\n", "✅ {tasks_completed} tasks were completed.\n\n",
\* "\U0001F525 Total PFT for Completed Tasks: {pft_sum}\n\n"
tweet_template(initiations, tasks_completed, pft_sum) ==
    <<128640, 32, 68, 97, 105, 108, 121, 32, 80, 70, 84, 32, 85, 112, 100, 97,
      116, 101, 33, 10, 10>>
        \o <<10024, 32>> \o format_value(initiations)
        \o <<32, 110, 101, 119, 32, 105, 110, 105, 116, 105, 97, 116, 105, 111,
             110, 115, 32, 121, 101, 115, 116, 101, 114, 100, 97, 121, 46, 10>>
        \o <<9989, 32>> \o format_value(tasks_completed)
        \o <<32, 116, 97, 115, 107, 115, 32, 119, 101, 114, 101, 32, 99, 111,
             109, 112, 108, 101, 116, 101, 100, 46, 10, 10>>
        \o <<128293, 32, 84, 111, 116, 97, 108, 32, 80, 70, 84, 32, 102, 111,
             114, 32, 67, 111, 109, 112, 108, 101, 116, 101, 100, 32, 84, 97,
             115, 107, 115, 58, 32>> \o format_value(pft_sum) \o <<10, 10>>

\* "..."
Ellipsis == <<46, 46, 46>>

buffer == 3

\* line 70
excess_length(text) == Len(text) - 280

\* line 72
truncated_leaderboard_length(text, leaderboard_text) ==
    Len(leaderboard_text) - excess_length(text) - buffer

\* lines 73-81: the text is built again from the same three values; the
\* truncated leaderboard of line 74 is not part of it
rebuilt_tweet(text, initiations, tasks_completed, leaderboard_text, pft_sum) ==
    IF truncated_leaderboard_length(text, leaderboard_text) > 0
    THEN tweet_template(initiations, tasks_completed, pft_sum)
    ELSE text

final_check_cut_at_limit(text) ==
    IF Len(text) > 280 THEN SubSeq(text, 1, 280) \o Ellipsis ELSE text

\* lines 83-84
final_check(text) ==
    IF Len(text) > 280 THEN SubSeq(text, 1, 277) \o Ellipsis ELSE text

\* lines 59-86
create_tweet(initiations, tasks_completed, leaderboard_text, pft_sum) ==
    LET text == tweet_template(initiations, tasks_completed, pft_sum)
    IN IF Len(text) > 280
       THEN final_check(rebuilt_tweet(text, initiations, tasks_completed,
                                      leaderboard_text, pft_sum))
       ELSE text

\* --------------------------------------------------------------------------
\* Calls of create_tweet on counts and on texts of many lengths
\* --------------------------------------------------------------------------
\* counts, and texts of nines of lengths around the one (56 each) where the three
\* values fill the tweet exactly
FieldValues ==
    {[int |-> n] : n \in {0, 7, 42, 1234}}
        \cup {[str |-> [i \in 1..n |-> 57]] : n \in {0, 56, 57, MaxFieldLen}}

\* "1) @r | tasks: 2, pft: 30\n2) ..." cut or repeated to n code points
LeaderboardSample ==
    <<49, 41, 32, 64, 114, 32, 124, 32, 116, 97, 115, 107, 115, 58, 32, 50, 44,
      32, 112, 102, 116, 58, 32, 51, 48, 10>>

LeaderboardOfLen(n) ==
    [i \in 1..n |-> LeaderboardSample[((i - 1) % Len(LeaderboardSample)) + 1]]

TweetArgs ==
    [initiations : FieldValues, tasks_completed : FieldValues,
     leaderboard_text : {LeaderboardOfLen(n) : n \in {0, 4, 5, MaxLeaderboardLen}},
     pft_sum : FieldValues]

InitTweet ==
    /\ InitMain({<<>>})
    /\ InitDecoderIdle
    /\ InitAmountIdle
    /\ InitTimeIdle
    /\ InitMemoIdle
    /\ InitHandlerIdle
    /\ tweet_args \in TweetArgs
    /\ tweet = <<>>
    /\ wpc = "call"

\* line 288, or any other call
CreateTweet ==
    /\ wpc = "call"
    /\ tweet' = create_tweet(tweet_args.initiations, tweet_args.tasks_completed,
                             tweet_args.leaderboard_text, tweet_args.pft_sum)
    /\ wpc' = "returned"
    /\ UNCHANGED tweet_args
    /\ UNCHANGED <<mainVars, decoderVars, amountVars, timeVars, memoVars,
                   handlerVars>>

NextTweet == CreateTweet

SpecTweet == InitTweet /\ [][NextTweet]_vars

\* --------------------------------------------------------------------------
\* twitterbot.py: lambda_handler and the functions it calls.  A call gives
\* [return |-> value] or [raise |-> the class of the exception].
\* --------------------------------------------------------------------------
\* the classes an exception of class name is an instance of
ExceptionClasses(name) ==
    IF name = "Forbidden"
    THEN {"Forbidden", "HTTPException", "TweepyException", "Exception"}
    ELSE IF name = "TweepyException" THEN {"TweepyException", "Exception"}
    ELSE {name, "Exception"}

\* whether "except class" catches what the call gave
Catches(class, result) ==
    "raise" \in DOMAIN result /\ class \in ExceptionClasses(result.raise)

\* json.loads of a text that is the JSON of a value, or is not JSON
json_loads(text) ==
    IF "json" \in DOMAIN text THEN [return |-> text.json]
    ELSE [raise |-> "JSONDecodeError"]

\* lines 29-44; the except clause raises again what it caught
get_secret(get_secret_value_response) ==
    IF "raise" \in DOMAIN get_secret_value_response THEN get_secret_value_response
    ELSE IF "SecretString" \in DOMAIN get_secret_value_response.return
    THEN json_loads(get_secret_value_response.return.SecretString)
    ELSE json_loads(get_secret_value_response.return.SecretBinary.utf8)

\* neon_secrets.get(key): only a dict has the method
secrets_get(neon_secrets, key) ==
    IF "object" \in DOMAIN neon_secrets
    THEN [return |-> Get(neon_secrets.object, key, None)]
    ELSE [raise |-> "AttributeError"]

\* lines 100-103
consumer_key == <<>>
consumer_secret == <<>>
access_token == <<>>
access_token_secret == <<>>

\* all() of a list of strings
all(strings) == \A i \in 1..Len(strings) : strings[i] # <<>>

\* lines 98-129 given what client.get_me() does; both except clauses raise
\* again what they caught
authenticate_twitter(get_me) ==
    IF ~all(<<consumer_key, consumer_secret, access_token, access_token_secret>>)
    THEN [raise |-> "ValueError"]
    ELSE IF "raise" \in DOMAIN get_me THEN get_me
    ELSE IF get_me.return.errors # <<>> THEN [raise |-> "Exception"]
    ELSE [return |-> "client"]

\* lines 142-153 given what client.create_tweet() does
post_tweet(create_tweet_call) ==
    IF "raise" \in DOMAIN create_tweet_call THEN create_tweet_call
    ELSE IF create_tweet_call.return.errors # <<>> THEN [raise |-> "Exception"]
    ELSE [return |-> None]

\* x if x else 0, for a count or a sum
or_zero(value) ==
    IF value # None /\ value # [int |-> 0] THEN value ELSE [int |-> 0]

\* line 282
leaderboard_line(rank, row) ==
    format_value([int |-> rank]) \o <<41, 32, 64>> \o format_value(row.user)
        \o <<32, 124, 32, 116, 97, 115, 107, 115, 58, 32>>
        \o format_value(row.tasks_completed)
        \o <<44, 32, 112, 102, 116, 58, 32>> \o format_value(row.pft)

\* lines 273-285: "\n".join of one line per row
leaderboard_text_of(top_rows) ==
    LET joined[n \in 0..Len(top_rows)] ==
            IF n = 0 THEN <<>>
            ELSE IF n = 1 THEN leaderboard_line(1, top_rows[1])
            ELSE joined[n - 1] \o <<10>> \o leaderboard_line(n, top_rows[n])
    IN joined[Len(top_rows)]

\* a return statement of lambda_handler
Return(statusCode, body) ==
    /\ hpc' = "returned"
    /\ handler_result' = [return |-> [statusCode |-> statusCode, body |-> body]]

\* an exception no except clause of lambda_handler catches
Escapes(result) ==
    /\ hpc' = "raised"
    /\ handler_result' = result

Called(name, result) == [call |-> name, ok |-> "return" \in DOMAIN result]

\* --------------------------------------------------------------------------
\* What the collaborators of one invocation may do
\* --------------------------------------------------------------------------
\* what a secret may hold: the JSON of a dict with DB_CONN_STRING "pg:a",
\* "pg:b" or "", of a dict without it, of a list, of null; or no JSON at all
SecretTexts ==
    {[json |-> [object |-> [DB_CONN_STRING |-> c]]] :
         c \in {<<112, 103, 58, 97>>, <<112, 103, 58, 98>>, <<>>}}
        \cup {[json |-> [object |-> [host |-> <<97>>]]], [json |-> [array |-> <<>>]],
              [json |-> [null |-> TRUE]], [invalid |-> TRUE]}

SecretValueResponses ==
    {[raise |-> "ClientError"], [raise |-> "EndpointConnectionError"]}
        \cup {[return |-> [SecretString |-> t]] : t \in SecretTexts}
        \cup {[return |-> [SecretBinary |-> [utf8 |-> t]]] : t \in SecretTexts}

\* the three result sets, or the query whose execution raises
QueryResults ==
    {[raise |-> "DatabaseError", query |-> k] : k \in 1..3}
        \cup [row_q1 : {[tasks_completed |-> [int |-> 0], pft |-> None],
                        [tasks_completed |-> [int |-> 3], pft |-> [int |-> 42]]},
              top_rows : UNION {[1..n ->
                  {[user |-> [str |-> <<114, 65>>], tasks_completed |-> [int |-> 2],
                    pft |-> [int |-> 30]],
                   [user |-> [str |-> <<114, 66>>], tasks_completed |-> [int |-> 1],
                    pft |-> [int |-> 12]],
                   [user |-> [str |-> <<114, 67>>], tasks_completed |-> [int |-> 1],
                    pft |-> [int |-> 5]]}] : n \in 0..MaxTopRows},
              row_q3 : {[initiations |-> [int |-> 0]], [initiations |-> [int |-> 7]]}]

TwitterResults ==
    {[raise |-> "Forbidden"], [raise |-> "TweepyException"],
     [raise |-> "ConnectionError"], [return |-> [errors |-> <<"error">>]],
     [return |-> [errors |-> <<>>]]}

InitHandler ==
    /\ InitMain({<<>>})
    /\ InitDecoderIdle
    /\ InitAmountIdle
    /\ InitTimeIdle
    /\ InitMemoIdle
    /\ InitTweetIdle
    /\ hpc = "start"
    /\ connection_string = None
    /\ conn = "none"
    /\ locals = None
    /\ handler_result = None
    /\ calls = <<>>
    /\ posted = <<>>

\* lines 181-187
ExtractConnectionString(got) ==
    IF "raise" \in DOMAIN got
    THEN Escapes(got) /\ UNCHANGED connection_string
    ELSE /\ connection_string' = got.return
         /\ IF Truthy(got.return)
            THEN hpc' = "connect" /\ UNCHANGED handler_result
            ELSE Return(500, "Invalid database secrets")

\* lines 167-187
GetSecret ==
    /\ hpc = "start"
    /\ \E response \in SecretValueResponses :
           /\ calls' = Append(calls, Called("get_secret", get_secret(response)))
           /\ IF Catches("Exception", get_secret(response))
              THEN /\ Return(500, "Secrets retrieval error")
                   /\ UNCHANGED connection_string
              ELSE ExtractConnectionString(
                       secrets_get(get_secret(response).return, "DB_CONN_STRING"))
    /\ UNCHANGED <<conn, locals, posted, mainVars, callVars,
                   tweetVars>>

\* lines 190-199
Connect ==
    /\ hpc = "connect"
    /\ \E result \in {[return |-> "conn"], [raise |-> "OperationalError"]} :
           /\ calls' = Append(calls, Called("connect", result))
           /\ IF Catches("Exception", result)
              THEN /\ Return(500, "Database connection error")
                   /\ UNCHANGED conn
              ELSE /\ conn' = "open"
                   /\ hpc' = "query"
                   /\ UNCHANGED handler_result
    /\ UNCHANGED <<connection_string, locals, posted, mainVars, callVars,
                   tweetVars>>

\* the cursor.execute calls made: all three, or up to the one that raises
Executed(result) ==
    IF "raise" \in DOMAIN result
    THEN [k \in 1..result.query |-> [call |-> "execute", ok |-> k < result.query]]
    ELSE [k \in 1..3 |-> [call |-> "execute", ok |-> TRUE]]

\* lines 243-270
RunQueries ==
    /\ hpc = "query"
    /\ \E result \in QueryResults :
           /\ calls' = calls \o Executed(result)
           /\ conn' = "closed"
           /\ IF Catches("Exception", result)
              THEN /\ Return(500, "Query execution error")
                   /\ UNCHANGED locals
              ELSE /\ locals' = [tasks_completed |-> or_zero(result.row_q1.tasks_completed),
                                 pft_sum |-> or_zero(result.row_q1.pft),
                                 top_rows |-> result.top_rows,
                                 initiations |-> or_zero(result.row_q3.initiations)]
                   /\ hpc' = "tweet"
                   /\ UNCHANGED handler_result
    /\ UNCHANGED <<connection_string, posted, mainVars, callVars,
                   tweetVars>>

\* lines 303-323
PostAndReturn(posting) ==
    /\ posted' = IF Catches("Exception", posting) THEN posted
                 ELSE Append(posted, create_tweet(locals.initiations,
                                                  locals.tasks_completed,
                                                  leaderboard_text_of(locals.top_rows),
                                                  locals.pft_sum))
    /\ IF Catches("Forbidden", posting)
       THEN Return(403, "Forbidden: Insufficient permissions to post tweets.")
       ELSE IF Catches("TweepyException", posting)
       THEN Return(500, "Error posting tweet")
       ELSE IF "raise" \in DOMAIN posting THEN Escapes(posting)
       ELSE Return(200, "Tweet posted successfully")

\* lines 272-323
PostUpdate ==
    /\ hpc = "tweet"
    /\ \E get_me \in TwitterResults, create_tweet_call \in TwitterResults :
           IF Catches("Exception", authenticate_twitter(get_me))
           THEN /\ calls' = Append(calls, Called("authenticate_twitter",
                                                 authenticate_twitter(get_me)))
                /\ Return(500, "Twitter authentication error")
                /\ UNCHANGED posted
           ELSE /\ calls' = calls
                       \o <<Called("authenticate_twitter", authenticate_twitter(get_me)),
                            Called("post_tweet", post_tweet(create_tweet_call))>>
                /\ PostAndReturn(post_tweet(create_tweet_call))
    /\ UNCHANGED <<connection_string, conn, locals, mainVars, callVars,
                   tweetVars>>

NextHandler ==
    \/ GetSecret
    \/ Connect
    \/ RunQueries
    \/ PostUpdate

SpecHandler == InitHandler /\ [][NextHandler]_vars

\* --------------------------------------------------------------------------
\* Properties
\* --------------------------------------------------------------------------
Running == pc \in {"fetch", "process"}

\* the entry the for loop handled last
LastEntry == transactions_batch[idx - 1]

\* the entries of the pages fetched so far in this run
FetchedIds ==
    UNION {{fetchLog[i].response.result.transactions[k] :
                k \in 1..Len(fetchLog[i].response.result.transactions)} :
           i \in {j \in 1..Len(fetchLog) : "result" \in DOMAIN fetchLog[j].response}}

\* C1: a completed run that follows a completed run, against the same remote
\* history, leaves the committed table exactly as it found it.
Idempotence == (pc = "done" /\ prev_outcome = "done") => db = db_at_start

\* a second completed run that fetched a matching transaction again
IdempotenceWitness ==
    /\ pc = "done"
    /\ prev_outcome = "done"
    /\ db # {}
    /\ \E id \in FetchedIds : Matches(id)

\* the loop is about to insert a row whose hash the connection already sees
InsertConflict ==
    /\ pc = "process"
    /\ idx <= Len(transactions_batch)
    /\ Matches(transactions_batch[idx])
    /\ \E r \in conn_rows : r.transaction_hash =
                             RowOf(TxOf(transactions_batch[idx])).transaction_hash

HashUnique(rows) ==
    \A r1, r2 \in rows : r1.transaction_hash = r2.transaction_hash => r1 = r2

\* C2: the table never holds two rows with one transaction_hash, and the
\* insert of a hash that is already stored changes no row and lets the loop
\* go on to the next entry.
HashUniqueAndImmutable ==
    /\ [](HashUnique(db) /\ HashUnique(conn_rows))
    /\ [][(InsertConflict /\ idx' = idx + 1) =>
              (conn_rows' = conn_rows /\ db' = db /\ pc' = "process")]_vars

\* an insert met a stored row of the same hash and other column values
HashConflictWitness ==
    /\ pc = "process"
    /\ idx > 1
    /\ Matches(LastEntry)
    /\ RowOf(TxOf(LastEntry)) \notin conn_rows
    /\ \E r \in conn_rows :
          r.transaction_hash = RowOf(TxOf(LastEntry)).transaction_hash

\* the bound a run must use, from the table as it was when the run started
BoundFromStorage ==
    IF db_at_start = {} THEN 0
    ELSE 1 + Max({r.ledger_index : r \in db_at_start})

\* C3: the lower bound of a run, and of every fetch request it sends, is
\* 1 + the largest stored ledger_index at the start of the run, and 0 when
\* the table was empty.
ResumptionBound ==
    run >= 1 =>
        /\ ledger_index_min = BoundFromStorage
        /\ \A i \in 1..Len(fetchLog) :
              fetchLog[i].request.params.ledger_index_min = BoundFromStorage

\* a run that resumed from a non-empty table and has fetched
ResumptionBoundWitness ==
    /\ db_at_start # {}
    /\ Len(fetchLog) >= 1
    /\ fetchLog[1].request.params.ledger_index_min >= 2

\* the three conditions of the payment filter, read off the transaction
IsTrackedPayment(tx) ==
    /\ "TransactionType" \in DOMAIN tx
    /\ tx.TransactionType = "Payment"
    /\ "Amount" \in DOMAIN tx
    /\ "dict" \in DOMAIN tx.Amount
    /\ tx.Amount.dict.issuer = ISSUER_ADDRESS
    /\ tx.Amount.dict.currency = CURRENCY_CODE

RemoteIds == {remote[i] : i \in 1..Len(remote)}

\* C4: every stored row is the row of a transaction of the remote that is a
\* Payment with a structured Amount of the configured issuer and currency,
\* and the loop step for an entry that fails one of these conditions changes
\* no row.
FilterPrecision ==
    /\ [](\A r \in db \cup conn_rows :
             \E id \in RemoteIds :
                 IsTrackedPayment(TxOf(id)) /\ r = RowOf(TxOf(id)))
    /\ [][(/\ pc = "process"
           /\ idx <= Len(transactions_batch)
           /\ ~IsTrackedPayment(TxOf(transactions_batch[idx])))
          => (conn_rows' = conn_rows /\ db' = db)]_vars

\* the loop has just passed a payment of another currency of the tracked
\* issuer, and rows are stored
FilterPrecisionWitness ==
    /\ pc = "process"
    /\ idx > 1
    /\ db # {}
    /\ LET tx == TxOf(LastEntry) IN
          /\ tx.TransactionType = "Payment"
          /\ "dict" \in DOMAIN tx.Amount
          /\ tx.Amount.dict.issuer = ISSUER_ADDRESS
          /\ tx.Amount.dict.currency # CURRENCY_CODE

HasResult(i) == "result" \in DOMAIN fetchLog[i].response

HasMarker(i) == HasResult(i) /\ "marker" \in DOMAIN fetchLog[i].response.result

\* C5: every response of a run but the last one carried a marker; the run
\* is at its end only after a response without marker, and it is about to
\* fetch again only at its start or after a response with a marker.
PaginationTermination ==
    /\ \A i \in 1..(Len(fetchLog) - 1) : HasMarker(i)
    /\ pc = "done" => (fetchLog # <<>> /\ ~HasMarker(Len(fetchLog)))
    /\ pc = "fetch" => (fetchLog = <<>> \/ HasMarker(Len(fetchLog)))

\* a run that ended after two pages with marker and one without
PaginationTerminationWitness ==
    /\ pc = "done"
    /\ Len(fetchLog) = 3

\* the hashes page i brought that were not stored when it was fetched
NewHashes(i) ==
    LET page == fetchLog[i].response.result.transactions IN
    {RowOf(TxOf(page[k])).transaction_hash :
        k \in {j \in 1..Len(page) : Matches(page[j])}} \ Hashes(fetchLog[i].db)

\* page i was committed: the run went on to another fetch or to its end
PageCommitted(i) == i < Len(fetchLog) \/ pc = "done"

\* C6: when a run has stopped, each page it fetched is in the committed table
\* with all the rows it had to add or with none of them, and the pages
\* committed before an abort are there with all of them.
PageAtomicity ==
    pc \in {"done", "aborted"} =>
        \A i \in {j \in 1..Len(fetchLog) : HasResult(j)} :
            /\ NewHashes(i) \subseteq Hashes(db)
               \/ NewHashes(i) \cap Hashes(db) = {}
            /\ PageCommitted(i) => NewHashes(i) \subseteq Hashes(db)

\* a run aborted inside its second page after inserting a row of that page:
\* the first page is stored, the second is not
PageAtomicityWitness ==
    /\ pc = "aborted"
    /\ Len(fetchLog) = 2
    /\ HasResult(2)
    /\ idx > 1
    /\ NewHashes(1) # {}
    /\ NewHashes(1) \subseteq Hashes(db)
    /\ Matches(transactions_batch[1])
    /\ NewHashes(2) # {}
    /\ NewHashes(2) \cap Hashes(db) = {}

\* C7: a response without "result" is the last thing of its run: the run is
\* aborted, nothing was fetched after it, and the committed table is the one
\* the request was sent from, with no open change.
FatalRetrievalError ==
    \A i \in 1..Len(fetchLog) :
        ~HasResult(i) =>
            /\ i = Len(fetchLog)
            /\ pc = "aborted"
            /\ db = fetchLog[i].db
            /\ conn_rows = db

\* a run aborted by its third fetch, after committing rows
FatalRetrievalErrorWitness ==
    /\ pc = "aborted"
    /\ Len(fetchLog) = 3
    /\ ~HasResult(3)
    /\ db # db_at_start

\* a matching transaction of the remote that the table does not hold although
\* the table holds a row of its ledger or of a later one
BehindCursor(id, rows) ==
    /\ Matches(id)
    /\ rows # {}
    /\ Entries[id].ledger <= Max({r.ledger_index : r \in rows})
    /\ RowOf(TxOf(id)) \notin rows

\* C8: a matching transaction that is behind the cursor when a run starts is
\* neither fetched nor stored by that run (and so by no later run); the
\* witness is a run that aborted on a fetch after committing part of a ledger.
SkippedStaySkipped ==
    run >= 1 =>
        \A id \in RemoteIds :
            BehindCursor(id, db_at_start) =>
                /\ id \notin FetchedIds
                /\ RowOf(TxOf(id)) \notin db

\* a completed run after a run that aborted on a fetch: one matching
\* transaction of ledger L is stored, another one of ledger L is not, and the
\* completed run started at L + 1
SkippedWitness ==
    /\ pc = "done"
    /\ prev_outcome = "fetch_aborted"
    /\ \E a, b \in RemoteIds :
          /\ Matches(a) /\ Matches(b)
          /\ Entries[a].ledger = Entries[b].ledger
          /\ RowOf(TxOf(a)).ledger_index = Entries[a].ledger
          /\ RowOf(TxOf(a)) \in db_at_start
          /\ ledger_index_min = Entries[a].ledger + 1
          /\ RowOf(TxOf(b)).transaction_hash \notin Hashes(db)

\* C9: a committed row stays in the committed table, unchanged, in every
\* later state.
NoDeletion == [][db \subseteq db']_vars

\* a run that added rows to a table left by an aborted run
NoDeletionWitness ==
    /\ run >= 2
    /\ prev_outcome \in {"fetch_aborted", "insert_aborted"}
    /\ db_at_start # {}
    /\ db_at_start # db

\* a non-empty string of an even number of hex digits
IsHexString(s) ==
    /\ Len(s) > 0
    /\ Len(s) % 2 = 0
    /\ \A i \in 1..Len(s) : HexDigitValue(s[i]) < 16

\* the bytes a hex string stands for
HexBytes(s) ==
    [i \in 1..(Len(s) \div 2) |->
        16 * HexDigitValue(s[2 * i - 1]) + HexDigitValue(s[2 * i])]

\* the number of trailing '=' of s
Padding(s) ==
    IF Len(s) >= 2 /\ s[Len(s)] = BASE64_PAD /\ s[Len(s) - 1] = BASE64_PAD THEN 2
    ELSE IF Len(s) >= 1 /\ s[Len(s)] = BASE64_PAD THEN 1
    ELSE 0

\* a non-empty string of groups of four characters of the base64 alphabet,
\* the last group padded with at most two '='
IsBase64String(s) ==
    /\ Len(s) > 0
    /\ Len(s) % 4 = 0
    /\ \A i \in 1..(Len(s) - Padding(s)) : B64Value(s[i]) < 64

\* the bytes a base64 string stands for: group g is a 24 bit number
B64Bytes(s) ==
    LET sextet(i) == IF B64Value(s[i]) < 64 THEN B64Value(s[i]) ELSE 0
        group(g)  == sextet(4 * g - 3) * 262144 + sextet(4 * g - 2) * 4096
                     + sextet(4 * g - 1) * 64 + sextet(4 * g)
        byte(j)   == LET g == (j - 1) \div 3 + 1
                         k == (j - 1) % 3
                     IN CASE k = 0 -> group(g) \div 65536
                          [] k = 1 -> (group(g) \div 256) % 256
                          [] k = 2 -> group(g) % 256
    IN [j \in 1..(3 * (Len(s) \div 4) - Padding(s)) |-> byte(j)]

\* the characters of s that are in the base64 alphabet
AlphabetOnly(s) == SelectSeq(s, LAMBDA c : B64Value(c) < 64)

\* s has no '=' and no whitespace
Plain(s) == \A i \in 1..Len(s) : s[i] # BASE64_PAD /\ ~IsSpace(s[i])

IsAscii(s) == \A i \in 1..Len(s) : s[i] <= 127

\* the first two cases of the fallback order: valid hex decodes as hex,
\* valid base64 that is not valid hex decodes as base64
HexThenBase64 ==
    /\ IsHexString(encoded_str) =>
          decoded = utf8_decode(HexBytes(encoded_str))
    /\ (~IsHexString(encoded_str) /\ IsBase64String(encoded_str)) =>
          decoded = utf8_decode(B64Bytes(encoded_str))

\* C10 as stated: hex text for valid hex, else base64 text for valid base64,
\* else the string itself.
DecoderFallbackOrderAsStated ==
    dpc = "returned" =>
        /\ HexThenBase64
        /\ (~IsHexString(encoded_str) /\ ~IsBase64String(encoded_str)) =>
              decoded = encoded_str

\* C10 amended: hex text for valid hex, else base64 text for valid base64;
\* a string without '=' and whitespace that is not valid hex decodes to itself
\* when it has a non-ASCII character or when the number of its base64-alphabet
\* characters is not a multiple of 4, and otherwise to the base64 text of its
\* base64-alphabet characters, the other characters being ignored.
DecoderFallbackOrder ==
    dpc = "returned" =>
        /\ HexThenBase64
        /\ (~IsHexString(encoded_str) /\ Plain(encoded_str)) =>
              IF ~IsAscii(encoded_str)
                 \/ Len(AlphabetOnly(encoded_str)) % 4 # 0
              THEN decoded = encoded_str
              ELSE decoded = utf8_decode(B64Bytes(AlphabetOnly(encoded_str)))

\* a string that is valid hex and valid base64 came back as its hex text
DecoderFallbackOrderWitness ==
    /\ dpc = "returned"
    /\ IsHexString(encoded_str)
    /\ IsBase64String(encoded_str)
    /\ decoded = utf8_decode(HexBytes(encoded_str))
    /\ decoded # utf8_decode(B64Bytes(encoded_str))

\* the value string is a decimal number with few enough digits for the
\* integer below
SmallDecimal(s) ==
    LET f == parse_float(s) IN
    /\ f.kind = "finite"
    /\ Len(f.digits) <= 9
    /\ Len(f.digits) + f.exp10 <= 9

\* the integer part of the decimal number s, fraction cut off
TruncatedDecimal(s) ==
    LET f == parse_float(s)
        n == Len(f.digits) + f.exp10
        magnitude == IF n <= 0 THEN 0
                     ELSE IF f.exp10 >= 0
                     THEN DigitsValue(f.digits \o [i \in 1..f.exp10 |-> 48])
                     ELSE DigitsValue(SubSeq(f.digits, 1, n))
    IN IF f.neg THEN 0 - magnitude ELSE magnitude

\* C11: the conversion of a value string never ends the run; a decimal value
\* string gives its integer part (fraction cut off, not rounded), and a string
\* that is not a number gives 0.
AmountConversion ==
    /\ apc # "raised"
    /\ apc = "returned" =>
          /\ SmallDecimal(value_str) => amount_int = TruncatedDecimal(value_str)
          /\ parse_float(value_str).kind # "finite" => amount_int = 0

\* the number of seconds from 1970-01-01T00:00:00 UTC to the calendar date and
\* time dt
SecondsSinceEpoch(dt) ==
    LET y   == IF dt.month <= 2 THEN dt.year - 1 ELSE dt.year
        era == y \div 400
        yoe == y - era * 400
        mp  == IF dt.month > 2 THEN dt.month - 3 ELSE dt.month + 9
        doy == (153 * mp + 2) \div 5 + dt.day - 1
        doe == yoe * 365 + yoe \div 4 - yoe \div 100 + doy
        days == era * 146097 + doe - 719468
    IN days * 86400 + dt.hour * 3600 + dt.minute * 60 + dt.second

\* C12: every stored row is the row of a matching transaction of the remote;
\* when that transaction has a date d the row's timestamp is the UTC instant
\* d + 946684800 seconds after 1970-01-01, and when it has no date the row's
\* timestamp is absent.
TimestampOffset ==
    \A r \in db \cup conn_rows :
        \E id \in RemoteIds :
            /\ IsTrackedPayment(TxOf(id))
            /\ r = RowOf(TxOf(id))
            /\ IF "date" \in DOMAIN TxOf(id)
               THEN /\ r.transaction_timestamp # None
                    /\ SecondsSinceEpoch(r.transaction_timestamp)
                           = TxOf(id).date + 946684800
               ELSE r.transaction_timestamp = None

\* committed rows of a transaction with a date and of one without
TimestampOffsetWitness ==
    /\ \E r \in db : r.transaction_timestamp = None
    /\ \E r \in db : r.transaction_timestamp # None

\* C13 as stated: ledger time 0 converts to 2000-01-01T00:00:00 and ledger
\* time 946684800 to a time on 2030-01-01.
TimestampExamplesAsStated ==
    tpc = "returned" =>
        /\ ripple_time = 0 =>
               tx_datetime = [year |-> 2000, month |-> 1, day |-> 1,
                              hour |-> 0, minute |-> 0, second |-> 0]
        /\ ripple_time = 946684800 =>
               /\ tx_datetime.year = 2030
               /\ tx_datetime.month = 1
               /\ tx_datetime.day = 1

\* C13: ledger time 0 converts to 2000-01-01T00:00:00 and ledger time
\* 946684800 to 2029-12-31T00:00:00, both UTC.
TimestampExamples ==
    tpc = "returned" =>
        /\ ripple_time = 0 =>
               tx_datetime = [year |-> 2000, month |-> 1, day |-> 1,
                              hour |-> 0, minute |-> 0, second |-> 0]
        /\ ripple_time = 946684800 =>
               tx_datetime = [year |-> 2029, month |-> 12, day |-> 31,
                              hour |-> 0, minute |-> 0, second |-> 0]

\* the conversion of ledger time 946684800 has returned
TimestampExamplesWitness == tpc = "returned" /\ ripple_time = 946684800

\* the hashes of the matching entries among the first n of a page
MatchingHashes(page, n) ==
    {RowOf(TxOf(page[k])).transaction_hash :
        k \in {j \in 1..n : Matches(page[j])}}

\* C14: the committed table changes only in the step after the last entry of
\* the fetched page, which commits all inserts of that page; a fetch request
\* is sent only when every insert of the earlier pages of the run is
\* committed; an insert is the insert of the entry at the loop position, the
\* position moves one entry forward at a time, and at an insert the matching
\* entries before it in the page are inserted and the earlier pages committed.
CommitProcessingOrder ==
    /\ [][db' # db =>
            /\ pc = "process"
            /\ idx > Len(transactions_batch)
            /\ db' = conn_rows
            /\ MatchingHashes(transactions_batch, Len(transactions_batch))
                   \subseteq Hashes(db')]_vars
    /\ [][Len(fetchLog') > Len(fetchLog) =>
            /\ conn_rows = db
            /\ \A i \in 1..Len(fetchLog) :
                   LET page == fetchLog[i].response.result.transactions IN
                   MatchingHashes(page, Len(page)) \subseteq Hashes(db)]_vars
    /\ [][~(conn_rows' \subseteq conn_rows) =>
            /\ pc = "process"
            /\ idx <= Len(transactions_batch)
            /\ idx' = idx + 1
            /\ Matches(transactions_batch[idx])
            /\ conn_rows' = conn_rows \cup {RowOf(TxOf(transactions_batch[idx]))}
            /\ MatchingHashes(transactions_batch, idx - 1)
                   \subseteq Hashes(conn_rows)
            /\ \A i \in 1..(Len(fetchLog) - 1) :
                   LET page == fetchLog[i].response.result.transactions IN
                   MatchingHashes(page, Len(page)) \subseteq Hashes(db)]_vars
    /\ [][(pc = "process" /\ idx' # idx) =>
            idx' = idx + 1 /\ transactions_batch' = transactions_batch]_vars

\* the second page of a run is being inserted: the first page has added rows
\* and its commit was there when the second request was sent
CommitProcessingOrderWitness ==
    /\ pc = "process"
    /\ Len(fetchLog) = 2
    /\ idx > 1
    /\ conn_rows # db
    /\ NewHashes(1) # {}
    /\ fetchLog[2].db # fetchLog[1].db

\* C15: the first request of a run has no marker, and every later request of
\* the run has the marker of the response just before it.
MarkerThreading ==
    \A i \in 1..Len(fetchLog) :
        LET params == fetchLog[i].request.params IN
        IF i = 1
        THEN "marker" \notin DOMAIN params
        ELSE /\ HasMarker(i - 1)
             /\ "marker" \in DOMAIN params
             /\ params.marker = fetchLog[i - 1].response.result.marker

\* a third request was sent, with another marker than the second
MarkerThreadingWitness ==
    /\ Len(fetchLog) >= 3
    /\ fetchLog[3].request.params.marker # fetchLog[2].request.params.marker

\* C16: every request of a run has the lower bound computed from the table as
\* it was before the first request, whatever the run has committed since, and
\* the upper bound -1.
QueryRangeFixed ==
    \A i \in 1..Len(fetchLog) :
        LET params == fetchLog[i].request.params IN
        /\ params.ledger_index_min = get_last_stored_ledger_index(db_at_start) + 1
        /\ params.ledger_index_min = fetchLog[1].request.params.ledger_index_min
        /\ params.ledger_index_max = -1

\* a request sent after a commit of the run raised the stored maximum
QueryRangeFixedWitness ==
    /\ Len(fetchLog) >= 2
    /\ get_last_stored_ledger_index(fetchLog[Len(fetchLog)].db) + 1
           > fetchLog[Len(fetchLog)].request.params.ledger_index_min

\* the ledger indexes main() read from the entries of the pages of this run
ObservedLedgerIndexes ==
    {Get(TxOf(id), "ledger_index", 0) : id \in FetchedIds}

\* C17: when a run has completed, highest_ledger_this_run is the highest
\* ledger index among the entries the run observed.
HighestLedgerTracking ==
    pc = "done" =>
        /\ ObservedLedgerIndexes # {}
        /\ highest_ledger_this_run = Max(ObservedLedgerIndexes)

\* the annotation entries of a transaction
MemosOf(tx) == IF "Memos" \in DOMAIN tx THEN tx.Memos ELSE <<>>

\* entry e has no data, or empty data
NoData(e) ==
    \/ "Memo" \notin DOMAIN e
    \/ "MemoData" \notin DOMAIN e.Memo
    \/ e.Memo.MemoData = <<>>

\* the decoded field of entry e
FieldOf(e) == IF NoData(e) THEN <<>> ELSE decode_hex_or_base64(e.Memo.MemoData)

\* where the field of entry i starts in the text of the entries es
FieldStart(es, i) ==
    LET start[k \in 1..Len(es)] ==
            IF k = 1 THEN 1
            ELSE start[k - 1] + Len(FieldOf(es[k - 1])) + 1
    IN start[i]

\* C18: the memo text of a transaction with n >= 1 annotation entries is the
\* n decoded fields in order, each followed by one newline except the last
\* (n - 1 separators), an entry without data or with empty data giving an
\* empty field; without annotation list, or with an empty one, it is empty.
MemoAssembly ==
    mpc = "returned" =>
        LET es == MemosOf(transaction)
            n  == Len(es)
        IN IF n = 0 THEN memo_str = <<>>
           ELSE /\ Len(memo_str) = FieldStart(es, n) + Len(FieldOf(es[n])) - 1
                /\ \A i \in 1..n :
                       /\ SubSeq(memo_str, FieldStart(es, i),
                                 FieldStart(es, i) + Len(FieldOf(es[i])) - 1)
                              = FieldOf(es[i])
                       /\ i < n =>
                              memo_str[FieldStart(es, i) + Len(FieldOf(es[i]))] = 10

\* the text of three entries, the second without data, was assembled
MemoAssemblyWitness ==
    /\ mpc = "returned"
    /\ Len(MemosOf(transaction)) = 3
    /\ NoData(MemosOf(transaction)[2])
    /\ ~NoData(MemosOf(transaction)[1])
    /\ Len(memo_str) > 2

\* the entries of the remote at or above the lower bound of the run
InRangeIds == {id \in RemoteIds : Entries[id].ledger >= ledger_index_min}

\* C19: when a run has completed (the remote returns, over the pages of the
\* run, every entry at or above the run's lower bound), every matching
\* transaction at or above the lower bound has a committed row under its hash.
Completeness ==
    pc = "done" =>
        /\ InRangeIds \subseteq FetchedIds
        /\ \A id \in InRangeIds :
               Matches(id) =>
                   \E r \in db : r.transaction_hash = Get(TxOf(id), "hash", "")

\* a run over three pages has completed and has stored three transactions
CompletenessWitness ==
    /\ pc = "done"
    /\ Len(fetchLog) = 3
    /\ Cardinality({id \in InRangeIds : Matches(id)}) >= 3
    /\ Cardinality(db \ db_at_start) >= 3

\* both concurrent runs have completed
BothDone == \A p \in Procs : proc[p].pc = "done"

\* the rows run p has committed are rows the table had no row for: not in
\* the initial table and not committed by the other run
FreshCommits(p) ==
    /\ Hashes(proc[p].committed) \cap Hashes(db_at_start) = {}
    /\ \A q \in Procs \ {p} :
           Hashes(proc[p].committed) \cap Hashes(proc[q].committed) = {}

\* C20: under two interleaved runs the table never holds two rows with one
\* transaction_hash (no run commits a row for a hash that the initial table
\* or the other run has a row for), and when both runs have completed the
\* table is the one a single completed run from the same initial table
\* produces.
ConcurrentRuns ==
    /\ HashUnique(db)
    /\ \A p \in Procs : FreshCommits(p)
    /\ db = db_at_start \cup UNION {proc[p].committed : p \in Procs}
    /\ BothDone => db = SingleRunResult(db_at_start, remote)

\* both runs have completed, each has committed a row, and one of them met
\* a row the other had committed
ConcurrentRunsWitness ==
    /\ BothDone
    /\ \A p \in Procs : proc[p].committed # {}
    /\ \E p \in Procs :
           Hashes(SingleRunResult(db_at_start, remote)) \ Hashes(db_at_start)
               # Hashes(proc[p].committed)

\* C21: whatever the four arguments are, the text create_tweet returns is at
\* most 280 code points long; a text that fits is returned as built
TweetLengthBound ==
    wpc = "returned" =>
        /\ Len(tweet) <= 280
        /\ Len(tweet_template(tweet_args.initiations, tweet_args.tasks_completed,
                              tweet_args.pft_sum)) <= 280
               => tweet = tweet_template(tweet_args.initiations,
                                         tweet_args.tasks_completed,
                                         tweet_args.pft_sum)

\* a call whose text was too long has returned, cut to the limit
TweetLengthBoundWitness ==
    /\ wpc = "returned"
    /\ Len(tweet_template(tweet_args.initiations, tweet_args.tasks_completed,
                          tweet_args.pft_sum)) > 280
    /\ truncated_leaderboard_length(
           tweet_template(tweet_args.initiations, tweet_args.tasks_completed,
                          tweet_args.pft_sum), tweet_args.leaderboard_text) > 0
    /\ Len(tweet) = 280
    /\ SubSeq(tweet, 278, 280) = Ellipsis

\* the stages whose failure the handler answers with an error response
GuardedStages == {"get_secret", "connect", "execute", "authenticate_twitter"}

\* the handler has returned a response with this status
Returned(statusCode) ==
    /\ hpc = "returned"
    /\ handler_result.return.statusCode = statusCode

\* C22: lambda_handler returns 200 only after post_tweet completed without
\* error; when secret retrieval, database connection, query execution or
\* Twitter authentication fails it returns a response that is not 200, calls
\* no later stage and posts no tweet; and no exception leaves lambda_handler
HandlerOutcome ==
    /\ hpc # "raised"
    /\ Returned(200) =>
           /\ calls # <<>>
           /\ calls[Len(calls)] = [call |-> "post_tweet", ok |-> TRUE]
           /\ Len(posted) = 1
    /\ \A i \in 1..Len(calls) :
           (calls[i].call \in GuardedStages /\ ~calls[i].ok) =>
               /\ i = Len(calls)
               /\ hpc = "returned"
               /\ ~Returned(200)
               /\ posted = <<>>

=============================================================================
